---- MODULE Spec2Model ----
(***************************************************************************)
(* mcp-to-typescript-codegen: the JSON-Schema-to-TypeScript translator     *)
(* (jsonSchemaToTS) in its two variants, and the run of main() that emits  *)
(* the generated file.                                                     *)
(*                                                                         *)
(* Strings are sequences of one-character strings, so that joins, quoting  *)
(* and identifier normalisation are computed character by character.       *)
(***************************************************************************)
EXTENDS Integers, Sequences, FiniteSets, TLC

VARIABLES
    variant,    \* which script runs: "morph" (src/src/index.ts, second script), "plain" (src/unnamed/part_001),
                \* "zod" (src/src/index.ts, first script) or "zod0" (src/unnamed/part_000)
    schema,     \* the SchemaNode handed to jsonSchemaToTS
    result,     \* what the call returned: [st |-> "none" | "ok" | "raised", s |-> text]
    opts,       \* parseArgs values: help, command, server, name
    pc,         \* position of main()
    tools,      \* the tool descriptors listTools() returned
    idx,        \* index of the next tool the generation loop handles
    lines,      \* the emitted statements (morph) or lines (plain), in order
    connected,  \* client.connect() has succeeded
    closed,     \* client.close() has been called
    written,    \* fs.writeFileSync has written the output file
    exitCode,   \* process.exit code, -1 while running
    error,      \* what main().catch received, "none" if nothing
    zodString,  \* the text handed to fixZodSchema
    warnings    \* what console.warn has printed, in order

tvars == <<variant, schema, result>>
mvars == <<opts, pc, tools, idx, lines, connected, closed, written, exitCode, error>>
zvars == <<zodString, warnings>>
vars == <<variant, schema, result, opts, pc, tools, idx, lines, connected, closed, written, exitCode, error,
          zodString, warnings>>

(***************************************************************************)
(* Bounds of the model.                                                    *)
(***************************************************************************)
MaxDepth == 2
MaxProps == 2
MaxTools == 2

(***************************************************************************)
(* String literals of the source.                                          *)
(***************************************************************************)
Str_unknown == <<"u", "n", "k", "n", "o", "w", "n">>
Str_string == <<"s", "t", "r", "i", "n", "g">>
Str_number == <<"n", "u", "m", "b", "e", "r">>
Str_boolean == <<"b", "o", "o", "l", "e", "a", "n">>
Str_null == <<"n", "u", "l", "l">>
Str_true == <<"t", "r", "u", "e">>
Str_false == <<"f", "a", "l", "s", "e">>
Str_unknownArr == <<"u", "n", "k", "n", "o", "w", "n", "[", "]">>
Str_arr == <<"[", "]">>
Str_lparen == <<"(">>
Str_rparenArr == <<")", "[", "]">>
Str_RecordUnknown == <<"R", "e", "c", "o", "r", "d", "<", "s", "t", "r", "i", "n", "g", ",", " ", "u", "n", "k", "n", "o", "w", "n", ">">>
Str_RecordOpen == <<"R", "e", "c", "o", "r", "d", "<", "s", "t", "r", "i", "n", "g", ",", " ">>
Str_gt == <<">">>
Str_emptyObj == <<"{", "}">>
Str_pipe == <<" ", "|", " ">>
Str_amp == <<" ", "&", " ">>
Str_opt == <<"?">>
Str_colon == <<":", " ">>
Str_semiSp == <<";", " ">>
Str_braceOpenSp == <<"{", " ">>
Str_spBraceClose == <<" ", "}">>
Str_braceOpenNl == <<"{", "\n">>
Str_nl == <<"\n">>
Str_braceClose == <<"}">>
Str_semi == <<";">>
Str_indent == <<" ", " ">>
Str_docOpen == <<"/", "*", "*", " ">>
Str_docClose == <<" ", "*", "/", "\n">>
Str_exportType == <<"e", "x", "p", "o", "r", "t", " ", "t", "y", "p", "e", " ">>
Str_eq == <<" ", "=", " ">>
Str_Params == <<"P", "a", "r", "a", "m", "s">>
Str_Output == <<"O", "u", "t", "p", "u", "t">>
Str_ToolName == <<"T", "o", "o", "l", "N", "a", "m", "e">>
Str_toolNames == <<"t", "o", "o", "l", "N", "a", "m", "e", "s">>
Str_exportConst == <<"e", "x", "p", "o", "r", "t", " ", "c", "o", "n", "s", "t", " ">>
Str_lbracket == <<"[">>
Str_asConst == <<"]", " ", "a", "s", " ", "c", "o", "n", "s", "t">>
Str_commaSp == <<",", " ">>
Str_comma == <<",">>
Str_quote == <<"\"">>
\* the warning texts, without their leading warning sign
Str_noTools == <<"N", "o", " ", "t", "o", "o", "l", "s", " ", "f", "o", "u", "n", "d">>
Str_header1 == <<"/", "/", " ", "A", "u", "t", "o", "-", "g", "e", "n", "e", "r", "a", "t", "e", "d", " ", "b", "y", " ", "m", "c", "p", "-", "t", "o", "-", "t", "y", "p", "e", "s", "c", "r", "i", "p", "t", "-", "c", "o", "d", "e", "g", "e", "n">>
Str_header2 == <<"/", "/", " ", "D", "o", " ", "n", "o", "t", " ", "e", "d", "i", "t", " ", "m", "a", "n", "u", "a", "l", "l", "y">>

(***************************************************************************)
(* JavaScript values. A SchemaNode is a record with jt = "object" and any  *)
(* subset of the JsonSchema fields; a field that is absent is not in the   *)
(* record's DOMAIN. Children (items, additionalProperties, the values of   *)
(* properties) and enum elements may be any JSON value.                    *)
(***************************************************************************)
Undefined == [jt |-> "undefined"]
JNull == [jt |-> "null"]
JBool(b) == [jt |-> "boolean", b |-> b]
JNum(n) == [jt |-> "number", n |-> n]
JStr(s) == [jt |-> "string", str |-> s]
JObj == [jt |-> "object"]

Has(o, f) == f \in DOMAIN o
Get(o, f) == IF Has(o, f) THEN o[f] ELSE Undefined

\* ToBoolean
Truthy(v) ==
    CASE v.jt = "undefined" -> FALSE
      [] v.jt = "null" -> FALSE
      [] v.jt = "boolean" -> v.b
      [] v.jt = "number" -> v.n # 0
      [] v.jt = "string" -> v.str # <<>>
      [] OTHER -> TRUE

\* v === true
IsTrue(v) == v.jt = "boolean" /\ v.b

\* the typeof operator: typeof null is "object"
TypeOf(v) == IF v.jt = "null" THEN "object" ELSE v.jt

(***************************************************************************)
(* Characters.                                                             *)
(***************************************************************************)
Lower == <<"a", "b", "c", "d", "e", "f", "g", "h", "i", "j", "k", "l", "m",
           "n", "o", "p", "q", "r", "s", "t", "u", "v", "w", "x", "y", "z">>
Upper == <<"A", "B", "C", "D", "E", "F", "G", "H", "I", "J", "K", "L", "M",
           "N", "O", "P", "Q", "R", "S", "T", "U", "V", "W", "X", "Y", "Z">>
Digits == <<"0", "1", "2", "3", "4", "5", "6", "7", "8", "9">>

Range(f) == {f[i] : i \in DOMAIN f}
IndexOf(seq, c) == CHOOSE i \in DOMAIN seq : seq[i] = c
\* the k-th element of a set of numbers, in ascending order
NthOf(S, k) == CHOOSE c \in S : Cardinality({x \in S : x < c}) = k - 1

\* String.prototype.toUpperCase on one character
ToUpperCase(c) == IF c \in Range(Lower) THEN Upper[IndexOf(Lower, c)] ELSE c

\* Array.prototype.join
RECURSIVE Join(_, _)
Join(strs, sep) ==
    IF Len(strs) = 0 THEN <<>>
    ELSE IF Len(strs) = 1 THEN strs[1]
    ELSE strs[1] \o sep \o Join(Tail(strs), sep)

\* String.prototype.repeat
RECURSIVE Repeat(_, _)
Repeat(s, n) == IF n = 0 THEN <<>> ELSE s \o Repeat(s, n - 1)

\* Number to its decimal text
RECURSIVE NatToStr(_)
NatToStr(n) == IF n < 10 THEN <<Digits[n + 1]>> ELSE NatToStr(n \div 10) \o <<Digits[(n % 10) + 1]>>
NumToStr(n) == IF n < 0 THEN <<"-">> \o NatToStr(-n) ELSE NatToStr(n)

\* JSON.stringify's quoting of a string: the quote, the backslash and the line feed are escaped
RECURSIVE QuoteChars(_)
QuoteChars(s) ==
    IF s = <<>> THEN <<>>
    ELSE (CASE Head(s) = "\"" -> <<"\\", "\"">>
            [] Head(s) = "\\" -> <<"\\", "\\">>
            [] Head(s) = "\n" -> <<"\\", "n">>
            [] OTHER -> <<Head(s)>>) \o QuoteChars(Tail(s))

\* JSON.stringify of a JSON primitive
JSONStringify(v) ==
    CASE v.jt = "string" -> Str_quote \o QuoteChars(v.str) \o Str_quote
      [] v.jt = "number" -> NumToStr(v.n)
      [] v.jt = "boolean" -> (IF v.b THEN Str_true ELSE Str_false)
      [] OTHER -> Str_null

(***************************************************************************)
(* Object.entries: the own keys of a JavaScript object come with the       *)
(* array-index keys first, in ascending numeric order, and then the other  *)
(* string keys in insertion order. An object is modelled as the sequence   *)
(* of its <<key, value>> pairs in insertion order, keys distinct.          *)
(***************************************************************************)
\* 2^32 - 2, the largest array index, in decimal
MaxArrayIndex == <<"4", "2", "9", "4", "9", "6", "7", "2", "9", "4">>

DigitValue(c) == IndexOf(Digits, c) - 1

\* a <= b for two digit strings of the same length
RECURSIVE DigitsLE(_, _)
DigitsLE(a, b) ==
    IF a = <<>> THEN TRUE
    ELSE IF DigitValue(Head(a)) # DigitValue(Head(b)) THEN DigitValue(Head(a)) < DigitValue(Head(b))
    ELSE DigitsLE(Tail(a), Tail(b))

\* a <= b as numbers, for two canonical numeric strings
IndexLE(a, b) == Len(a) < Len(b) \/ (Len(a) = Len(b) /\ DigitsLE(a, b))

\* a canonical numeric string not above 2^32 - 2
IsArrayIndex(k) ==
    /\ k # <<>>
    /\ \A i \in DOMAIN k : k[i] \in Range(Digits)
    /\ (Len(k) > 1 => k[1] # "0")
    /\ IndexLE(k, MaxArrayIndex)

SelectPairs(pairs, Test(_)) == SelectSeq(pairs, LAMBDA p : Test(p[1]))

RECURSIVE SortByIndex(_)
SortByIndex(pairs) ==
    IF pairs = <<>> THEN <<>>
    ELSE LET m == CHOOSE i \in DOMAIN pairs :
                     \A j \in DOMAIN pairs : IndexLE(pairs[i][1], pairs[j][1])
         IN <<pairs[m]>> \o SortByIndex(SubSeq(pairs, 1, m - 1) \o SubSeq(pairs, m + 1, Len(pairs)))

NotArrayIndex(k) == ~IsArrayIndex(k)

\* a bug: the entries in insertion order, as a Map would give them
ObjectEntries_Inserted(obj) == obj

\* Object.entries(obj): array-index keys in ascending order, then the others as inserted
ObjectEntries(obj) ==
    SortByIndex(SelectPairs(obj, IsArrayIndex)) \o SelectPairs(obj, NotArrayIndex)
ObjectKeys(obj) == [i \in DOMAIN obj |-> obj[i][1]]

(***************************************************************************)
(* Results of a call: a returned string, or a raised TypeError.            *)
(***************************************************************************)
NoResult == [st |-> "none", s |-> <<>>]
Ret(s) == [st |-> "ok", s |-> s]
Raised == [st |-> "raised", s |-> <<>>]
AllOk(rs) == \A i \in DOMAIN rs : rs[i].st = "ok"
Texts(rs) == [i \in DOMAIN rs |-> rs[i].s]

(***************************************************************************)
(* The steps both variants of jsonSchemaToTS share.                        *)
(***************************************************************************)
\* a bug: schema.enum.join(" | "), the strings without their quotes
EnumUnion_Unquoted(values) ==
    Join([i \in DOMAIN values |-> IF values[i].jt = "string" THEN values[i].str
                                   ELSE JSONStringify(values[i])], Str_pipe)

\* schema.enum.map((v) => JSON.stringify(v)).join(" | ")
EnumUnion(values) == Join([i \in DOMAIN values |-> JSONStringify(values[i])], Str_pipe)

\* a bug: schema.anyOf || schema.oneOf
UnionVariants_AnyOfFirst(sch) == IF Has(sch, "anyOf") THEN sch.anyOf ELSE sch.oneOf

\* schema.oneOf || schema.anyOf || []
UnionVariants(sch) == IF Has(sch, "oneOf") THEN sch.oneOf ELSE sch.anyOf

\* new Set(schema.required || [])
RequiredSet(sch) == IF Has(sch, "required") THEN Range(sch.required) ELSE {}

\* a bug: the two arms exchanged
OptionalMarker_Exchanged(required, key) == IF key \in required THEN Str_opt ELSE <<>>

\* required.has(key) ? "" : "?"
OptionalMarker(required, key) == IF key \in required THEN <<>> ELSE Str_opt

(***************************************************************************)
(* jsonSchemaToTS and objectSchemaToTS of src/src/index.ts.                *)
(***************************************************************************)
\* a bug: every field ended by ";", the last one too
ObjectLiteral_Terminated(props) ==
    Str_braceOpenSp \o Join(props, Str_semiSp) \o Str_semi \o Str_spBraceClose

\* `{ ${props.join("; ")} }`
ObjectLiteral(props) == Str_braceOpenSp \o Join(props, Str_semiSp) \o Str_spBraceClose

RECURSIVE jsonSchemaToTS(_), objectSchemaToTS(_)

objectSchemaToTS(sch) ==
    IF ~Has(sch, "properties") \/ Len(ObjectKeys(sch.properties)) = 0
    THEN IF IsTrue(Get(sch, "additionalProperties")) THEN Str_RecordUnknown
         ELSE IF TypeOf(Get(sch, "additionalProperties")) = "object"
              THEN Str_RecordOpen \o jsonSchemaToTS(sch.additionalProperties) \o Str_gt
              ELSE Str_emptyObj
    ELSE LET required == RequiredSet(sch)
             entries == ObjectEntries(sch.properties)
             props == [i \in DOMAIN entries |->
                          LET key == entries[i][1]
                              prop == entries[i][2]
                              opt == OptionalMarker(required, key)
                          IN key \o opt \o Str_colon \o jsonSchemaToTS(prop)]
         IN ObjectLiteral(props)

jsonSchemaToTS(sch) ==
    IF ~Truthy(sch) \/ TypeOf(sch) # "object" THEN Str_unknown
    ELSE IF Has(sch, "enum")
    THEN EnumUnion(sch.enum)
    ELSE IF Has(sch, "oneOf") \/ Has(sch, "anyOf")
    THEN LET variants == UnionVariants(sch)
         IN Join([i \in DOMAIN variants |-> jsonSchemaToTS(variants[i])], Str_pipe)
    ELSE IF Has(sch, "allOf")
    THEN Join([i \in DOMAIN sch.allOf |-> jsonSchemaToTS(sch.allOf[i])], Str_amp)
    ELSE LET type == IF Has(sch, "type") THEN sch.type ELSE "undefined"
         IN CASE type = "string" -> Str_string
              [] type \in {"number", "integer"} -> Str_number
              [] type = "boolean" -> Str_boolean
              [] type = "null" -> Str_null
              [] type = "array" ->
                    (IF Truthy(Get(sch, "items"))
                     THEN Str_lparen \o jsonSchemaToTS(sch.items) \o Str_rparenArr
                     ELSE Str_unknownArr)
              [] OTHER -> objectSchemaToTS(sch)

(***************************************************************************)
(* jsonSchemaToTS of src/unnamed/part_001, with its indent parameter. It   *)
(* reads prop.description of every value of properties, which raises a     *)
(* TypeError when the value is null.                                       *)
(***************************************************************************)
RECURSIVE jsonSchemaToTS_p1(_, _)

\* the union and intersection branches: map, then join
JoinResults(rs, sep) == IF AllOk(rs) THEN Ret(Join(Texts(rs), sep)) ELSE Raised

\* `{\n${props.join("\n")}\n${spaces}}`
ObjectLiteral_p1(props, spaces) ==
    Str_braceOpenNl \o Join(props, Str_nl) \o Str_nl \o spaces \o Str_braceClose

\* the object literal of lines 139-148, repeated at lines 152-160
propsToTS_p1(sch, indent) ==
    LET spaces == Repeat(Str_indent, indent)
        required == RequiredSet(sch)
        entries == ObjectEntries(sch.properties)
        props == [i \in DOMAIN entries |->
                     LET key == entries[i][1]
                         prop == entries[i][2]
                         optional == OptionalMarker(required, key)
                     IN IF prop.jt = "null" THEN Raised
                        ELSE LET comment == IF Has(prop, "description") /\ prop.description # <<>>
                                            THEN spaces \o Str_indent \o Str_docOpen
                                                 \o prop.description \o Str_docClose
                                            ELSE <<>>
                                 inner == jsonSchemaToTS_p1(prop, indent + 1)
                             IN IF inner.st # "ok" THEN Raised
                                ELSE Ret(comment \o spaces \o Str_indent \o key \o optional
                                         \o Str_colon \o inner.s \o Str_semi)]
    IN IF AllOk(props)
       THEN Ret(ObjectLiteral_p1(Texts(props), spaces))
       ELSE Raised

jsonSchemaToTS_p1(sch, indent) ==
    IF ~Truthy(sch) \/ TypeOf(sch) # "object" THEN Ret(Str_unknown)
    ELSE IF Has(sch, "enum")
    THEN Ret(EnumUnion(sch.enum))
    ELSE IF Has(sch, "oneOf") \/ Has(sch, "anyOf")
    THEN LET variants == UnionVariants(sch)
         IN JoinResults([i \in DOMAIN variants |-> jsonSchemaToTS_p1(variants[i], indent)], Str_pipe)
    ELSE IF Has(sch, "allOf")
    THEN JoinResults([i \in DOMAIN sch.allOf |-> jsonSchemaToTS_p1(sch.allOf[i], indent)], Str_amp)
    ELSE LET type == IF Has(sch, "type") THEN sch.type ELSE "undefined"
         IN CASE type = "string" -> Ret(Str_string)
              [] type \in {"number", "integer"} -> Ret(Str_number)
              [] type = "boolean" -> Ret(Str_boolean)
              [] type = "null" -> Ret(Str_null)
              [] type = "array" ->
                    (IF Truthy(Get(sch, "items"))
                     THEN LET inner == jsonSchemaToTS_p1(sch.items, indent)
                          IN IF inner.st = "ok" THEN Ret(inner.s \o Str_arr) ELSE Raised
                     ELSE Ret(Str_unknownArr))
              [] type = "object" ->
                    (IF ~Has(sch, "properties") \/ Len(ObjectKeys(sch.properties)) = 0
                     THEN IF IsTrue(Get(sch, "additionalProperties")) THEN Ret(Str_RecordUnknown)
                          ELSE IF Truthy(Get(sch, "additionalProperties"))
                                  /\ TypeOf(Get(sch, "additionalProperties")) = "object"
                          THEN LET inner == jsonSchemaToTS_p1(sch.additionalProperties, indent)
                               IN IF inner.st = "ok"
                                  THEN Ret(Str_RecordOpen \o inner.s \o Str_gt)
                                  ELSE Raised
                          ELSE Ret(Str_RecordUnknown)
                     ELSE propsToTS_p1(sch, indent))
              [] OTHER ->
                    (IF Has(sch, "properties") THEN propsToTS_p1(sch, indent)
                     ELSE Ret(Str_unknown))

\* the call main() makes: jsonSchemaToTS(tool.inputSchema as JsonSchema)
translate(v, sch) ==
    IF v = "morph" THEN Ret(jsonSchemaToTS(sch)) ELSE jsonSchemaToTS_p1(sch, 0)

(***************************************************************************)
(* The inputs: SchemaNode trees drawn from bounded sets.                   *)
(***************************************************************************)
Variants == {"morph", "plain"}

T(t) == [jt |-> "object", type |-> t]
Enum(vs) == [jt |-> "object", enum |-> vs]
Arr(items) == [jt |-> "object", type |-> "array", items |-> items]

Key_x == <<"x">>
Key_y == <<"y">>
Key_1 == <<"1">>
Key_2 == <<"2">>

Types == {"string", "number", "integer", "boolean", "null", "array", "object", "tuple"}

EnumAB3 == <<JStr(<<"a">>), JStr(<<"b">>), JNum(3)>>

\* children a malformed schema may carry in place of a SchemaNode
Malformed == {JNull, JNum(5), JNum(0), JBool(TRUE), JBool(FALSE), JStr(<<"s">>)}

\* the optional fields of a record, as the set of records over every subset of them
WithOptional(base, f, values) == {base} \cup {(f :> v) @@ base : v \in values}

\* enum values whose JSON text needs quoting, escaping, or holds the separator
Enums == {<<JStr(<<"a">>), JStr(<<"b">>)>>,
          <<JNull, JBool(TRUE)>>,
          <<JStr(<<"q", "\"">>), JNum(10)>>,
          <<JStr(<<"a", " ", "|", " ", "b">>), JStr(<<"\\">>), JBool(FALSE)>>}
Leaves == {JObj} \cup {T(t) : t \in Types} \cup {Enum(vs) : vs \in Enums}
SmallNodes == {T("string"), T("number")}

\* the keyword combinations the cascade chooses among
CascadeNodes ==
    LET e == WithOptional(JObj, "enum", {<<>>, EnumAB3, <<JStr(<<"a">>), JStr(<<"a">>)>>})
        o == UNION {WithOptional(n, "oneOf", {<<>>, <<T("string")>>, <<T("string"), T("number")>>}) : n \in e}
        a == UNION {WithOptional(n, "anyOf", {<<>>, <<T("number")>>, <<T("boolean"), T("string")>>}) : n \in o}
        l == UNION {WithOptional(n, "allOf", {<<>>, <<T("string"), T("number")>>}) : n \in a}
    IN UNION {WithOptional(n, "type", {"string", "array", "object", "tuple"}) : n \in l}

\* objects: every insertion order of up to MaxProps distinct keys
KeyOrders == {ks \in UNION {[1..n -> {Key_x, Key_y, Key_1, Key_2}] : n \in 0..MaxProps} :
                 \A i, j \in DOMAIN ks : i # j => ks[i] # ks[j]}
Requireds == {<<>>, <<Key_x>>, <<Key_y, Key_x>>, <<Key_1>>}
ObjectNodes ==
    LET withProps == UNION {{[jt |-> "object", properties |-> [i \in DOMAIN ks |-> <<ks[i], cs[i]>>]] :
                               cs \in [DOMAIN ks -> SmallNodes]} : ks \in KeyOrders}
        r == UNION {WithOptional(n, "required", Requireds) : n \in withProps}
    IN UNION {WithOptional(n, "type", {"object"}) : n \in r}

\* nodes without enum, oneOf, anyOf, allOf and without fields
FallbackNodes ==
    LET t == WithOptional(JObj, "type", {"object", "tuple"})
        p == UNION {WithOptional(n, "properties", {<<>>}) : n \in t}
    IN UNION {WithOptional(n, "additionalProperties",
                           {JBool(TRUE), JBool(FALSE), JNull, JNum(5), T("string"),
                            Enum(<<JStr(<<"a">>), JStr(<<"b">>)>>)}) : n \in p}

Described == [jt |-> "object", type |-> "string", description |-> <<"d">>]

\* one more level of nesting around a child
Wrap(c) ==
    {Arr(c),
     [jt |-> "object", type |-> "object", properties |-> <<<<Key_x, c>>>>],
     [jt |-> "object", properties |-> <<<<Key_y, T("number")>>, <<Key_x, c>>>>, required |-> <<Key_x>>],
     [jt |-> "object", oneOf |-> <<c, T("string")>>],
     [jt |-> "object", allOf |-> <<T("number"), c>>],
     [jt |-> "object", type |-> "object", additionalProperties |-> c]}

RECURSIVE DeepNodes(_)
DeepNodes(d) ==
    IF d = 0 THEN Leaves \cup Malformed \cup {Described}
    ELSE DeepNodes(d - 1) \cup UNION {Wrap(c) : c \in DeepNodes(d - 1)}

Schemas == CascadeNodes \cup ObjectNodes \cup FallbackNodes \cup DeepNodes(MaxDepth)

(***************************************************************************)
(* The translator on its own: one call of jsonSchemaToTS on a drawn input. *)
(***************************************************************************)
MainIdle ==
    /\ opts = [help |-> FALSE, command |-> FALSE, server |-> "none", name |-> <<>>]
    /\ pc = "idle"
    /\ tools = <<>>
    /\ idx = 1
    /\ lines = <<>>
    /\ connected = FALSE
    /\ closed = FALSE
    /\ written = [done |-> FALSE, text |-> <<>>]
    /\ exitCode = -1
    /\ error = "none"
    /\ warnings = <<>>

InitTranslate ==
    /\ variant \in Variants
    /\ schema \in Schemas
    /\ result = NoResult
    /\ zodString = <<>>
    /\ MainIdle

Translate ==
    /\ result.st = "none"
    /\ result' = translate(variant, schema)
    /\ UNCHANGED <<variant, schema>>
    /\ UNCHANGED mvars
    /\ UNCHANGED zvars

NextTranslate == Translate

SpecTranslate == InitTranslate /\ [][NextTranslate]_vars

(***************************************************************************)
(* The Identifier Normalizer.                                              *)
(***************************************************************************)
IsWordChar(c) == c \in Range(Lower) \cup Range(Upper) \cup Range(Digits) \cup {"_"}

\* name.replace(/[^a-zA-Z0-9_]/g, "_")
toValidIdentifier(name) == [i \in DOMAIN name |-> IF IsWordChar(name[i]) THEN name[i] ELSE "_"]

IsSeparator(c) == c \in {"-", "_", " ", "\t", "\n"}

\* str.split(/[-_\s]/): the pieces between separators, empty ones included
RECURSIVE Split(_, _)
Split(str, word) ==
    IF str = <<>> THEN <<word>>
    ELSE IF IsSeparator(Head(str)) THEN <<word>> \o Split(Tail(str), <<>>)
    ELSE Split(Tail(str), Append(word, Head(str)))

\* word.charAt(0).toUpperCase() + word.slice(1)
Capitalize(word) == IF word = <<>> THEN <<>> ELSE <<ToUpperCase(Head(word))>> \o Tail(word)

toPascalCase(str) ==
    LET words == Split(str, <<>>)
    IN Join([i \in DOMAIN words |-> Capitalize(words[i])], <<>>)

ToLowerCase(c) == IF c \in Range(Upper) THEN Lower[IndexOf(Upper, c)] ELSE c

toCamelCase(str) ==
    LET pascal == toPascalCase(str)
    IN IF pascal = <<>> THEN <<>> ELSE <<ToLowerCase(Head(pascal))>> \o Tail(pascal)

(***************************************************************************)
(* The run of main().                                                      *)
(***************************************************************************)
Name_do_thing_hyphen == <<"d", "o", "-", "t", "h", "i", "n", "g">>
Name_do_thing == <<"d", "o", "_", "t", "h", "i", "n", "g">>
Name_get == <<"g", "e", "t">>
ToolNames == {Name_do_thing_hyphen, Name_do_thing, Name_get}

NullProperty == [jt |-> "object", type |-> "object", properties |-> <<<<Key_x, JNull>>>>]
InputSchemas == {T("string"), T("number")}
OutputSchemas == {T("boolean")}

\* the tool descriptors listTools() may return; outputSchema is optional
Descriptors ==
    UNION {WithOptional([name |-> n, inputSchema |-> s], "outputSchema", OutputSchemas) :
              n \in ToolNames, s \in InputSchemas}
    \cup {[name |-> Name_get, inputSchema |-> NullProperty]}
ToolLists == UNION {[1..n -> Descriptors] : n \in 0..MaxTools}

Name_my_api == <<"m", "y", "-", "a", "p", "i">>

\* the command lines of the model: values.help, values.command and values.server
\* (absent, a URL, or text new URL() rejects), values.name
OptionSets ==
    {[help |-> TRUE, command |-> FALSE, server |-> "none", name |-> <<>>],
     [help |-> FALSE, command |-> FALSE, server |-> "none", name |-> <<>>],
     [help |-> FALSE, command |-> TRUE, server |-> "none", name |-> <<>>],
     [help |-> FALSE, command |-> FALSE, server |-> "valid", name |-> <<>>],
     [help |-> FALSE, command |-> TRUE, server |-> "invalid", name |-> <<>>],
     [help |-> FALSE, command |-> TRUE, server |-> "none", name |-> Name_my_api]}

\* const prefix = values.name ? toPascalCase(values.name) : ""
prefix == IF variant = "morph" /\ opts.name # <<>> THEN toPascalCase(opts.name) ELSE <<>>
\* a bug: the constant named with the Pascal-cased prefix
prefixCamel_Pascal == IF variant = "morph" /\ opts.name # <<>> THEN toPascalCase(opts.name) ELSE <<>>
prefixCamel == IF variant = "morph" /\ opts.name # <<>> THEN toCamelCase(opts.name) ELSE <<>>

NotWritten == [done |-> FALSE, text |-> <<>>]

Init ==
    /\ variant \in Variants
    /\ opts \in OptionSets
    /\ (variant = "plain" => opts.name = <<>>)
    /\ schema = JObj
    /\ result = NoResult
    /\ pc = "start"
    /\ tools = <<>>
    /\ idx = 1
    /\ lines = <<>>
    /\ connected = FALSE
    /\ closed = FALSE
    /\ written = NotWritten
    /\ exitCode = -1
    /\ error = "none"
    /\ zodString = <<>>
    /\ warnings = <<>>

\* process.exit(code)
Exit(code) == pc' = "exited" /\ exitCode' = code /\ UNCHANGED error

\* a bug: the handler logs the error and exits with code 0
Catch_ExitZero(err) == pc' = "exited" /\ exitCode' = 0 /\ error' = err

\* main().catch((err) => ...): console.error, process.exit(1)
Catch(err) == pc' = "exited" /\ exitCode' = 1 /\ error' = err

\* the help and option checks, mkdirSync, createTransport, new Client
Start ==
    /\ pc = "start"
    /\ \/ opts.help /\ Exit(0)
       \/ ~opts.help /\ ~opts.command /\ opts.server = "none" /\ Exit(1)
       \/ \E mkdirOk \in BOOLEAN :
             /\ ~opts.help /\ (opts.command \/ opts.server # "none")
             /\ IF ~mkdirOk THEN Catch("mkdirSync")
                ELSE IF opts.server = "invalid" THEN Catch("Invalid URL")
                ELSE pc' = "connect" /\ UNCHANGED <<exitCode, error>>
    /\ UNCHANGED <<tools, idx, lines, connected, closed, written, opts>>
    /\ UNCHANGED tvars
    /\ UNCHANGED zvars

\* await client.connect(transport)
Connect ==
    /\ pc = "connect"
    /\ \/ connected' = TRUE /\ pc' = "list" /\ UNCHANGED <<exitCode, error>>
       \/ Catch("connect") /\ UNCHANGED connected
    /\ UNCHANGED <<tools, idx, lines, closed, written, opts>>
    /\ UNCHANGED tvars
    /\ UNCHANGED zvars

\* const { tools } = await client.listTools(), and the check for no tools
ListTools ==
    /\ pc = "list"
    /\ \/ \E ts \in ToolLists :
             /\ tools' = ts
             /\ pc' = IF Len(ts) = 0 THEN "closeEmpty" ELSE "header"
             /\ UNCHANGED <<exitCode, error>>
       \/ Catch("listTools") /\ UNCHANGED tools
    /\ UNCHANGED <<idx, lines, connected, closed, written, opts>>
    /\ UNCHANGED tvars
    /\ UNCHANGED zvars

\* no tools: console.warn; await client.close(), which may reject; process.exit(0)
CloseEmpty ==
    /\ pc = "closeEmpty"
    /\ warnings' = Append(warnings, Str_noTools)
    /\ closed' = TRUE
    /\ (Exit(0) \/ Catch("close"))
    /\ UNCHANGED <<tools, idx, lines, connected, written, opts>>
    /\ UNCHANGED tvars
    /\ UNCHANGED zodString

\* the header comment
Header ==
    /\ pc = "header"
    /\ lines' = lines \o <<Str_header1, Str_header2, <<>>>>
    /\ pc' = "loop"
    /\ UNCHANGED <<tools, idx, connected, closed, written, opts, exitCode, error>>
    /\ UNCHANGED tvars
    /\ UNCHANGED zvars

\* the text of an exported type alias
TypeAlias(name, type) == Str_exportType \o name \o Str_eq \o type \o Str_semi

\* what one declaration adds: the statement (morph), or the line and a blank line (plain)
PushTypeAlias(ls, name, type) ==
    IF variant = "morph" THEN Append(ls, TypeAlias(name, type))
    ELSE ls \o <<TypeAlias(name, type), <<>>>>

toolId(tool) == toPascalCase(toValidIdentifier(tool.name))
ParamsName(tool) == prefix \o toolId(tool) \o Str_Params
OutputName(tool) == prefix \o toolId(tool) \o Str_Output

\* one round of the loop over tools
ToolStep ==
    /\ pc = "loop"
    /\ idx <= Len(tools)
    /\ LET tool == tools[idx]
           tsType == translate(variant, tool.inputSchema)
           withParams == PushTypeAlias(lines, ParamsName(tool), tsType.s)
       IN IF tsType.st # "ok" THEN Catch("TypeError") /\ UNCHANGED <<lines, idx>>
          ELSE IF ~Has(tool, "outputSchema")
          THEN lines' = withParams /\ idx' = idx + 1 /\ UNCHANGED <<pc, exitCode, error>>
          ELSE LET outputTsType == translate(variant, tool.outputSchema)
               IN IF outputTsType.st # "ok"
                  THEN Catch("TypeError") /\ lines' = withParams /\ UNCHANGED idx
                  ELSE /\ lines' = PushTypeAlias(withParams, OutputName(tool), outputTsType.s)
                       /\ idx' = idx + 1
                       /\ UNCHANGED <<pc, exitCode, error>>
    /\ UNCHANGED <<tools, connected, closed, written, opts>>
    /\ UNCHANGED tvars
    /\ UNCHANGED zvars

\* the loop is over
LoopEnd ==
    /\ pc = "loop"
    /\ idx > Len(tools)
    /\ pc' = "union"
    /\ UNCHANGED <<tools, idx, lines, connected, closed, written, opts, exitCode, error>>
    /\ UNCHANGED tvars
    /\ UNCHANGED zvars

\* a tool name as a literal: `"${t.name}"` (morph), JSON.stringify(t.name) (plain)
NameLiteral(name) ==
    IF variant = "morph" THEN Str_quote \o name \o Str_quote
    ELSE JSONStringify(JStr(name))

\* a bug: the names passed through a Set, each kept once
NameLiterals_Unique ==
    LET firsts == {i \in DOMAIN tools : \A j \in 1..(i - 1) : tools[j].name # tools[i].name}
    IN [k \in 1..Cardinality(firsts) |-> NameLiteral(tools[NthOf(firsts, k)].name)]

\* tools.map((t) => `"${t.name}"`)
NameLiterals == [i \in DOMAIN tools |-> NameLiteral(tools[i].name)]

\* the ToolName union type
ToolNameUnion ==
    /\ pc = "union"
    /\ lines' = PushTypeAlias(lines, prefix \o Str_ToolName, Join(NameLiterals, Str_pipe))
    /\ pc' = "names"
    /\ UNCHANGED <<tools, idx, connected, closed, written, opts, exitCode, error>>
    /\ UNCHANGED tvars
    /\ UNCHANGED zvars

\* the toolNames constant: one statement (morph), one line per name (plain)
ToolNamesConst ==
    /\ pc = "names"
    /\ lines' = IF variant = "morph"
                THEN Append(lines, Str_exportConst \o prefixCamel \o Str_toolNames \o Str_eq
                                   \o Str_lbracket \o Join(NameLiterals, Str_commaSp)
                                   \o Str_asConst \o Str_semi)
                ELSE lines
                     \o <<Str_exportConst \o Str_toolNames \o Str_eq \o Str_lbracket>>
                     \o [i \in DOMAIN tools |->
                            Str_indent \o NameLiterals[i]
                            \o (IF i - 1 < Len(tools) - 1 THEN Str_comma ELSE <<>>)]
                     \o <<Str_asConst \o Str_semi>>
    /\ pc' = "write"
    /\ UNCHANGED <<tools, idx, connected, closed, written, opts, exitCode, error>>
    /\ UNCHANGED tvars
    /\ UNCHANGED zvars

\* fs.writeFileSync(outputFile, ...)
WriteFile ==
    /\ pc = "write"
    /\ \/ written' = [done |-> TRUE, text |-> lines] /\ pc' = "close" /\ UNCHANGED <<exitCode, error>>
       \/ Catch("writeFileSync") /\ UNCHANGED written
    /\ UNCHANGED <<tools, idx, lines, connected, closed, opts>>
    /\ UNCHANGED tvars
    /\ UNCHANGED zvars

\* await client.close(), which may reject; console.log; process.exit(0)
Close ==
    /\ pc = "close"
    /\ closed' = TRUE
    /\ (Exit(0) \/ Catch("close"))
    /\ UNCHANGED <<tools, idx, lines, connected, written, opts>>
    /\ UNCHANGED tvars
    /\ UNCHANGED zvars

Next ==
    \/ Start
    \/ Connect
    \/ ListTools
    \/ CloseEmpty
    \/ Header
    \/ ToolStep
    \/ LoopEnd
    \/ ToolNameUnion
    \/ ToolNamesConst
    \/ WriteFile
    \/ Close

Spec == Init /\ [][Next]_vars

(***************************************************************************)
(* fixZodSchema of src/src/index.ts: String.prototype.replace with a       *)
(* global regular expression made of three pieces: a primitive call, a dot *)
(* and one of string, number, boolean, date, bigint, symbol and an empty   *)
(* pair of parentheses; any number of modifier calls, each a dot, lower    *)
(* case letters, and parentheses around text free of closing parentheses;  *)
(* and the text .default(null). The replacement puts .nullable() after the *)
(* primitive call. The matcher follows the expression piece by piece:      *)
(* leftmost match, the modifier group greedy, giving modifiers back while  *)
(* no .default(null) follows.                                              *)
(***************************************************************************)
MaxMods == 2

Str_zAny == <<"z", ".", "a", "n", "y", "(", ")">>
Str_nullable == <<".", "n", "u", "l", "l", "a", "b", "l", "e", "(", ")">>
Str_defaultNull == <<".", "d", "e", "f", "a", "u", "l", "t", "(", "n", "u", "l", "l", ")">>
Str_call == <<"(", ")">>
PrimitiveNames == {<<"s", "t", "r", "i", "n", "g">>, <<"n", "u", "m", "b", "e", "r">>, <<"b", "o", "o", "l", "e", "a", "n">>,
                   <<"d", "a", "t", "e">>, <<"b", "i", "g", "i", "n", "t">>, <<"s", "y", "m", "b", "o", "l">>}

\* the text lit stands at position i of s
MatchesAt(s, i, lit) == i >= 1 /\ i + Len(lit) - 1 <= Len(s) /\ SubSeq(s, i, i + Len(lit) - 1) = lit

\* the primitive call at position i: the index of its last character, or 0
PrimitiveEnd(s, i) ==
    IF \E p \in PrimitiveNames : MatchesAt(s, i, <<".">> \o p \o Str_call)
    THEN i + Len(CHOOSE p \in PrimitiveNames : MatchesAt(s, i, <<".">> \o p \o Str_call)) + 2
    ELSE 0

\* one modifier call at position i: the index of its closing parenthesis, or 0
ModifierEnd(s, i) ==
    IF i > Len(s) \/ s[i] # "." THEN 0
    ELSE LET stops == {j \in (i + 1)..Len(s) : s[j] \notin Range(Lower)}
         IN IF stops = {} THEN 0
            ELSE LET open == NthOf(stops, 1)
                     closes == {j \in (open + 1)..Len(s) : s[j] = ")"}
                 IN IF open = i + 1 \/ s[open] # "(" \/ closes = {} THEN 0
                    ELSE NthOf(closes, 1)

\* the modifier calls and .default(null) from position p: the index of the last character matched, or 0
RECURSIVE ChainEnd(_, _)
ChainEnd(s, p) ==
    LET e == ModifierEnd(s, p)
        longer == IF e = 0 THEN 0 ELSE ChainEnd(s, e + 1)
    IN IF longer # 0 THEN longer
       ELSE IF MatchesAt(s, p, Str_defaultNull) THEN p + Len(Str_defaultNull) - 1
       ELSE 0

\* the whole expression at position i: the index of the last character matched, or 0
MatchEnd(s, i) == IF PrimitiveEnd(s, i) = 0 THEN 0 ELSE ChainEnd(s, PrimitiveEnd(s, i) + 1)

\* $1.nullable()$3.default(null) for the match at position i
Replacement(s, i) ==
    SubSeq(s, i, PrimitiveEnd(s, i)) \o Str_nullable \o SubSeq(s, PrimitiveEnd(s, i) + 1, MatchEnd(s, i))

\* the global replace: every match from left to right, the search resuming after each match
RECURSIVE ReplaceFrom(_, _)
ReplaceFrom(s, from) ==
    LET starts == {i \in from..Len(s) : MatchEnd(s, i) # 0}
    IN IF starts = {} THEN SubSeq(s, from, Len(s))
       ELSE LET i == NthOf(starts, 1)
            IN SubSeq(s, from, i - 1) \o Replacement(s, i) \o ReplaceFrom(s, MatchEnd(s, i) + 1)

fixZodSchema(zodStr) == ReplaceFrom(zodStr, 1)

(***************************************************************************)
(* The texts jsonSchemaToZod(...).toString() may hand to fixZodSchema.     *)
(***************************************************************************)
ZodHeads == {<<"z", ".", "s", "t", "r", "i", "n", "g", "(", ")">>, <<"z", ".", "n", "u", "m", "b", "e", "r", "(", ")">>, <<"z", ".", "b", "o", "o", "l", "e", "a", "n", "(", ")">>,
             <<"z", ".", "a", "r", "r", "a", "y", "(", "z", ".", "s", "t", "r", "i", "n", "g", "(", ")", ")">>, Str_zAny}
ZodModifiers == {<<".", "d", "e", "s", "c", "r", "i", "b", "e", "(", "\"", "d", "\"", ")">>, <<".", "d", "e", "s", "c", "r", "i", "b", "e", "(", "\"", "a", " ", "(", "b", ")", "\"", ")">>,
                 <<".", "m", "i", "n", "(", "1", ")">>, <<".", "m", "u", "l", "t", "i", "p", "l", "e", "O", "f", "(", "2", ")">>,
                 <<".", "o", "p", "t", "i", "o", "n", "a", "l", "(", ")">>, <<".", "r", "e", "g", "e", "x", "(", "n", "e", "w", " ", "R", "e", "g", "E", "x", "p", "(", "\"", "x", "\"", ")", ")">>}
ZodTails == {<<>>, Str_defaultNull, <<".", "d", "e", "f", "a", "u", "l", "t", "(", "5", ")">>}
ZodChains == UNION {[1..n -> ZodModifiers] : n \in 0..MaxMods}
ZodExpressions == {h \o Join(ms, <<>>) \o t : h \in ZodHeads, ms \in ZodChains, t \in ZodTails}
\* the fields of an object schema
ZodFields == {<<"z", ".", "s", "t", "r", "i", "n", "g", "(", ")", ".", "d", "e", "f", "a", "u", "l", "t", "(", "n", "u", "l", "l", ")">>,
              <<"z", ".", "n", "u", "m", "b", "e", "r", "(", ")", ".", "d", "e", "s", "c", "r", "i", "b", "e", "(", "\"", "n", "\"", ")", ".", "d", "e", "f", "a", "u", "l", "t", "(", "n", "u", "l", "l", ")">>,
              <<"z", ".", "s", "t", "r", "i", "n", "g", "(", ")", ".", "d", "e", "s", "c", "r", "i", "b", "e", "(", "\"", "(", "x", ")", "\"", ")", ".", "d", "e", "f", "a", "u", "l", "t", "(", "n", "u", "l", "l", ")">>,
              <<"z", ".", "s", "t", "r", "i", "n", "g", "(", ")">>}
ZodObjects == {<<"z", ".", "o", "b", "j", "e", "c", "t", "(", "{", " ", "\"", "a", "\"", ":", " ">> \o a \o <<",", " ", "\"", "b", "\"", ":", " ">> \o b \o <<" ", "}", ")">> : a, b \in ZodFields}
ZodStrings == ZodExpressions \cup ZodObjects

(***************************************************************************)
(* fixZodSchema on its own: one call on a drawn text.                      *)
(***************************************************************************)
InitFix ==
    /\ variant = "zod"
    /\ schema = JObj
    /\ zodString \in ZodStrings
    /\ result = NoResult
    /\ MainIdle

Fix ==
    /\ result.st = "none"
    /\ result' = Ret(fixZodSchema(zodString))
    /\ UNCHANGED <<variant, schema, zodString, warnings>>
    /\ UNCHANGED mvars

NextFix == Fix

SpecFix == InitFix /\ [][NextFix]_vars

(***************************************************************************)
(* The run of main() in the scripts that emit zod schemas: the first       *)
(* script of src/src/index.ts ("zod") and src/unnamed/part_000 ("zod0").   *)
(* jsonSchemaToZod belongs to the json-schema-to-zod package; each schema  *)
(* of the model carries what the conversion makes of it, a text or a raise.*)
(***************************************************************************)
ZodVariants == {"zod", "zod0"}

Str_failedInput == <<"F", "a", "i", "l", "e", "d", " ", "t", "o", " ", "c", "o", "n", "v", "e", "r", "t", " ", "s", "c", "h", "e", "m", "a", " ", "f", "o", "r", " ", "t", "o", "o", "l", ":", " ">>
Str_failedOutput == <<"F", "a", "i", "l", "e", "d", " ", "t", "o", " ", "c", "o", "n", "v", "e", "r", "t", " ", "o", "u", "t", "p", "u", "t", " ", "s", "c", "h", "e", "m", "a", " ", "f", "o", "r", " ", "t", "o", "o", "l", ":", " ">>
Str_usingAny == <<"U", "s", "i", "n", "g", " ", "z", ".", "a", "n", "y", "(", ")", " ", "a", "s", " ", "f", "a", "l", "l", "b", "a", "c", "k">>
Str_importZ == <<"i", "m", "p", "o", "r", "t", " ", "{", " ", "z", " ", "}", " ", "f", "r", "o", "m", " ", "'", "z", "o", "d", "'", ";">>
Str_docStart == <<"/", "*", "*", "\n", " ", "*", " ">>
Str_docEnd == <<"\n", " ", "*", "/">>
Str_ParametersFor == <<"P", "a", "r", "a", "m", "e", "t", "e", "r", "s", " ", "f", "o", "r", " ">>
Str_OutputFor == <<"O", "u", "t", "p", "u", "t", " ", "f", "o", "r", " ">>
Str_Schema == <<"S", "c", "h", "e", "m", "a">>
Str_OutputSchema == <<"O", "u", "t", "p", "u", "t", "S", "c", "h", "e", "m", "a">>
Str_inferOpen == <<"z", ".", "i", "n", "f", "e", "r", "<", "t", "y", "p", "e", "o", "f", " ">>
Str_mcpTools == <<"m", "c", "p", "T", "o", "o", "l", "s">>
Str_keyofTools == <<"k", "e", "y", "o", "f", " ", "t", "y", "p", "e", "o", "f", " ", "m", "c", "p", "T", "o", "o", "l", "s">>
Str_undefined == <<"u", "n", "d", "e", "f", "i", "n", "e", "d">>
Str_entryDocStart == <<" ", " ", "/", "*", "*", "\n", " ", " ", " ", "*", " ">>
Str_entryDocEnd == <<"\n", " ", " ", " ", "*", "/", "\n">>
Str_entryOpen == <<":", " ", "{", "\n">>
Str_entryDescription == <<" ", " ", " ", " ", "d", "e", "s", "c", "r", "i", "p", "t", "i", "o", "n", ":", " ">>
Str_entryParameters == <<" ", " ", " ", " ", "p", "a", "r", "a", "m", "e", "t", "e", "r", "s", ":", " ">>
Str_entryOutput == <<" ", " ", " ", " ", "o", "u", "t", "p", "u", "t", ":", " ">>
Str_entryEnd == <<",", "\n">>
Str_entryClose == <<" ", " ", "}">>
Str_objectClose == <<"}", " ", "a", "s", " ", "c", "o", "n", "s", "t">>

ZodSchema(outcome) == [jt |-> "object", converts |-> outcome]
\* jsonSchemaToZod(schema).toString()
jsonSchemaToZod(sch) == sch.converts

Description_d == <<"d">>
ZodDescriptors ==
    {[name |-> Name_do_thing_hyphen, inputSchema |-> ZodSchema(Ret(<<"z", ".", "s", "t", "r", "i", "n", "g", "(", ")">>))],
     [name |-> Name_do_thing_hyphen, inputSchema |-> ZodSchema(Raised)],
     [name |-> Name_get, description |-> Description_d,
      inputSchema |-> ZodSchema(Ret(<<"z", ".", "o", "b", "j", "e", "c", "t", "(", "{", " ", "\"", "a", "\"", ":", " ", "z", ".", "s", "t", "r", "i", "n", "g", "(", ")", ".", "d", "e", "f", "a", "u", "l", "t", "(", "n", "u", "l", "l", ")", " ", "}", ")">>))],
     [name |-> Name_get, inputSchema |-> ZodSchema(Raised),
      outputSchema |-> ZodSchema(Ret(<<"z", ".", "n", "u", "m", "b", "e", "r", "(", ")">>))],
     [name |-> Name_get, inputSchema |-> ZodSchema(Ret(<<"z", ".", "b", "o", "o", "l", "e", "a", "n", "(", ")">>)),
      outputSchema |-> ZodSchema(Raised)]}
ZodToolLists == UNION {[1..n -> ZodDescriptors] : n \in 0..MaxTools}

\* part_000 has no options: it always spawns SERVER_COMMAND
ZodOptionSets(v) ==
    IF v = "zod" THEN {o \in OptionSets : o.name = <<>>}
    ELSE {[help |-> FALSE, command |-> TRUE, server |-> "none", name |-> <<>>]}

InitZod ==
    /\ variant \in ZodVariants
    /\ opts \in ZodOptionSets(variant)
    /\ schema = JObj
    /\ result = NoResult
    /\ zodString = <<>>
    /\ warnings = <<>>
    /\ pc = "start"
    /\ tools = <<>>
    /\ idx = 1
    /\ lines = <<>>
    /\ connected = FALSE
    /\ closed = FALSE
    /\ written = NotWritten
    /\ exitCode = -1
    /\ error = "none"

\* const { tools } = await client.listTools(), and the check for no tools
ZodListTools ==
    /\ pc = "list"
    /\ \/ \E ts \in ZodToolLists :
             /\ tools' = ts
             /\ pc' = IF Len(ts) = 0 THEN "closeEmpty" ELSE "header"
             /\ UNCHANGED <<exitCode, error>>
       \/ Catch("listTools") /\ UNCHANGED tools
    /\ UNCHANGED <<idx, lines, connected, closed, written, opts>>
    /\ UNCHANGED tvars
    /\ UNCHANGED zvars

\* new Project, createSourceFile, the import of z and a blank line
ZodImport ==
    /\ pc = "header"
    /\ lines' = lines \o <<Str_importZ, <<>>>>
    /\ pc' = "loop"
    /\ UNCHANGED <<tools, idx, connected, closed, written, opts, exitCode, error>>
    /\ UNCHANGED tvars
    /\ UNCHANGED zvars

\* a bug: let zodSchemaString without its initial value, the catch leaving it undefined
ZodInitializer_NoFallback(sch) ==
    LET converted == jsonSchemaToZod(sch)
    IN IF converted.st # "ok" THEN Str_undefined
       ELSE IF variant = "zod" THEN fixZodSchema(converted.s)
       ELSE converted.s

\* let zodSchemaString = "z.any()"; try { zodSchemaString = ... } catch (err) { ... }
ZodInitializer(sch) ==
    LET converted == jsonSchemaToZod(sch)
    IN IF converted.st # "ok" THEN Str_zAny
       ELSE IF variant = "zod" THEN fixZodSchema(converted.s)
       ELSE converted.s

\* the two console.warn calls of a catch block
FallbackWarnings(sch, message, name) ==
    IF jsonSchemaToZod(sch).st # "ok" THEN <<message \o name, Str_usingAny>> ELSE <<>>

DocComment(text) == Str_docStart \o text \o Str_docEnd
ConstStatement(name, initializer) == Str_exportConst \o name \o Str_eq \o initializer \o Str_semi
InferredType(schemaName) == Str_inferOpen \o schemaName \o Str_gt

\* the statements of one schema: comment, exported const, exported inferred type, blank line
SchemaStatements(comment, schemaName, typeName, initializer) ==
    <<DocComment(comment),
      ConstStatement(schemaName, initializer),
      TypeAlias(typeName, InferredType(schemaName)),
      <<>>>>

\* description || fallback
DescriptionOr(tool, fallback) ==
    IF Has(tool, "description") /\ tool.description # <<>> THEN tool.description ELSE fallback

\* only the script of src/src/index.ts reads tool.outputSchema
EmitsOutput(tool) == variant = "zod" /\ Has(tool, "outputSchema")

\* one round of tools.forEach
ZodToolStep ==
    /\ pc = "loop"
    /\ idx <= Len(tools)
    /\ LET tool == tools[idx]
           id == toolId(tool)
           input == SchemaStatements(DescriptionOr(tool, Str_ParametersFor \o tool.name),
                                     id \o Str_Schema, id \o Str_Params,
                                     ZodInitializer(tool.inputSchema))
           inputWarnings == FallbackWarnings(tool.inputSchema, Str_failedInput, tool.name)
       IN IF EmitsOutput(tool)
          THEN /\ lines' = lines \o input
                           \o SchemaStatements(Str_OutputFor \o tool.name,
                                               id \o Str_OutputSchema, id \o Str_Output,
                                               ZodInitializer(tool.outputSchema))
               /\ warnings' = warnings \o inputWarnings
                              \o FallbackWarnings(tool.outputSchema, Str_failedOutput, tool.name)
          ELSE /\ lines' = lines \o input
               /\ warnings' = warnings \o inputWarnings
    /\ idx' = idx + 1
    /\ UNCHANGED <<pc, tools, connected, closed, written, opts, exitCode, error>>
    /\ UNCHANGED tvars
    /\ UNCHANGED zodString

\* tools.forEach is over
ZodLoopEnd ==
    /\ pc = "loop"
    /\ idx > Len(tools)
    /\ pc' = "object"
    /\ UNCHANGED <<tools, idx, lines, connected, closed, written, opts, exitCode, error>>
    /\ UNCHANGED tvars
    /\ UNCHANGED zvars

\* what the writer writes for the tool at position i of mcpTools
ToolEntry(i) ==
    LET tool == tools[i]
        id == toolId(tool)
    IN Str_entryDocStart \o DescriptionOr(tool, tool.name) \o Str_entryDocEnd
       \o Str_indent \o JSONStringify(JStr(tool.name)) \o Str_entryOpen
       \o Str_entryDescription
       \o (IF Has(tool, "description") THEN JSONStringify(JStr(tool.description)) ELSE Str_undefined)
       \o Str_entryEnd
       \o Str_entryParameters \o id \o Str_Schema \o Str_entryEnd
       \o (IF EmitsOutput(tool) THEN Str_entryOutput \o id \o Str_OutputSchema \o Str_entryEnd ELSE <<>>)
       \o Str_entryClose \o (IF i - 1 < Len(tools) - 1 THEN Str_comma ELSE <<>>) \o Str_nl

\* the mcpTools object, a blank line, and the ToolName type
ZodToolsObject ==
    /\ pc = "object"
    /\ lines' = lines
                \o <<ConstStatement(Str_mcpTools,
                                    Str_braceOpenNl \o Join([i \in DOMAIN tools |-> ToolEntry(i)], <<>>)
                                    \o Str_objectClose),
                     <<>>,
                     TypeAlias(Str_ToolName, Str_keyofTools)>>
    /\ pc' = "write"
    /\ UNCHANGED <<tools, idx, connected, closed, written, opts, exitCode, error>>
    /\ UNCHANGED tvars
    /\ UNCHANGED zvars

\* await project.save()
ZodSave ==
    /\ pc = "write"
    /\ \/ written' = [done |-> TRUE, text |-> lines] /\ pc' = "close" /\ UNCHANGED <<exitCode, error>>
       \/ Catch("save") /\ UNCHANGED written
    /\ UNCHANGED <<tools, idx, lines, connected, closed, opts>>
    /\ UNCHANGED tvars
    /\ UNCHANGED zvars

NextZod ==
    \/ Start
    \/ Connect
    \/ ZodListTools
    \/ CloseEmpty
    \/ ZodImport
    \/ ZodToolStep
    \/ ZodLoopEnd
    \/ ZodToolsObject
    \/ ZodSave
    \/ Close

SpecZod == InitZod /\ [][NextZod]_vars

(***************************************************************************)
(* Reading a TypeExpression back: the properties below are stated on the   *)
(* emitted text, split at its top-level separators. Brackets nest; the     *)
(* text of a string literal is skipped.                                    *)
(***************************************************************************)
OpenBrackets == {"(", "{", "<", "["}
CloseBrackets == {")", "}", ">", "]"}

\* s[j] is a quote that opens or closes a string literal: one after an even run of backslashes
IsLiteralQuote(s, j) ==
    /\ s[j] = "\""
    /\ \E k \in 0..(j - 1) :
          /\ k % 2 = 0
          /\ \A m \in 1..k : s[j - m] = "\\"
          /\ (j - k - 1 >= 1 => s[j - k - 1] # "\\")
\* position i lies inside a string literal, or closes one
InLiteral(s, i) == Cardinality({j \in 1..(i - 1) : IsLiteralQuote(s, j)}) % 2 = 1
\* the number of brackets open at position i
DepthAt(s, i) ==
    Cardinality({j \in 1..(i - 1) : s[j] \in OpenBrackets /\ ~InLiteral(s, j)})
    - Cardinality({j \in 1..(i - 1) : s[j] \in CloseBrackets /\ ~InLiteral(s, j)})
\* the positions of sep outside brackets and string literals
CutPoints(s, sep) == {i \in DOMAIN s : s[i] = sep /\ ~InLiteral(s, i) /\ DepthAt(s, i) = 0}

\* the pieces of s between the occurrences of sep outside brackets and string literals
Pieces(s, sep) ==
    LET cuts == CutPoints(s, sep)
        n == Cardinality(cuts)
    IN [k \in 1..(n + 1) |->
           SubSeq(s, IF k = 1 THEN 1 ELSE NthOf(cuts, k - 1) + 1,
                     IF k = n + 1 THEN Len(s) ELSE NthOf(cuts, k) - 1)]

IsSpace(c) == c \in {" ", "\n"}
\* String.prototype.trim, for spaces and line feeds
Trim(s) ==
    LET solid == {i \in DOMAIN s : ~IsSpace(s[i])}
    IN IF solid = {} THEN <<>>
       ELSE SubSeq(s, CHOOSE i \in solid : \A j \in solid : i <= j,
                      CHOOSE i \in solid : \A j \in solid : j <= i)

StartsWith(s, p) == Len(s) >= Len(p) /\ SubSeq(s, 1, Len(p)) = p
EndsWith(s, p) == Len(s) >= Len(p) /\ SubSeq(s, Len(s) - Len(p) + 1, Len(s)) = p

\* the text after a leading /** ... */
AfterDocComment(s) ==
    LET ends == {i \in 1..(Len(s) - 1) : s[i] = "*" /\ s[i + 1] = "/" /\ i > 3}
    IN IF ends = {} THEN <<>>
       ELSE SubSeq(s, (CHOOSE i \in ends : \A j \in ends : i <= j) + 2, Len(s))
StripDoc(s) == IF StartsWith(s, <<"/", "*", "*">>) THEN Trim(AfterDocComment(s)) ELSE s

\* the fields of an object type { ... }: the non-blank pieces between its top-level semicolons
FieldsOf(text) ==
    LET inner == SubSeq(text, 2, Len(text) - 1)
        pieces == Pieces(inner, ";")
        cleaned == [i \in DOMAIN pieces |-> StripDoc(Trim(pieces[i]))]
    IN SelectSeq(cleaned, LAMBDA f : f # <<>>)
\* the number of top-level semicolons of an object type
SemicolonsOf(text) == Len(Pieces(SubSeq(text, 2, Len(text) - 1), ";")) - 1

FieldHead(f) == Pieces(f, ":")[1]
FieldOptional(f) == EndsWith(FieldHead(f), Str_opt)
FieldName(f) == IF FieldOptional(f) THEN SubSeq(FieldHead(f), 1, Len(FieldHead(f)) - 1) ELSE FieldHead(f)
FieldNames(text) == [i \in DOMAIN FieldsOf(text) |-> FieldName(FieldsOf(text)[i])]

CascadeKeywords == <<"enum", "oneOf", "anyOf", "allOf", "type">>
NoComposition(sch) == \A f \in {"enum", "oneOf", "anyOf", "allOf"} : ~Has(sch, f)
\* a node that object-shape translation handles, with at least one property
IsObjectWithProperties(sch) ==
    /\ sch.jt = "object"
    /\ NoComposition(sch)
    /\ (Has(sch, "type") => sch.type = "object")
    /\ Has(sch, "properties")
    /\ Len(sch.properties) > 0

Called == result.st # "none"
Returned == result.st = "ok"

Scenario_xy ==
    [jt |-> "object", type |-> "object",
     properties |-> <<<<Key_x, T("string")>>, <<Key_y, T("number")>>>>,
     required |-> <<Key_x>>]
Text_xy_morph == <<"{", " ", "x", ":", " ", "s", "t", "r", "i", "n", "g", ";", " ", "y", "?", ":", " ", "n", "u", "m", "b", "e", "r", " ", "}">>
Text_xy_plain == <<"{", "\n", " ", " ", "x", ":", " ", "s", "t", "r", "i", "n", "g", ";", "\n", " ", " ", "y", "?", ":", " ", "n", "u", "m", "b", "e", "r", ";", "\n", "}">>
Text_ab3 == <<"\"", "a", "\"", " ", "|", " ", "\"", "b", "\"", " ", "|", " ", "3">>

(***************************************************************************)
(* Properties of the translator, checked under SpecTranslate.              *)
(***************************************************************************)

\* C1: totality: every call of jsonSchemaToTS, in either variant, returns a
\* non-empty string and never raises.
C1_Totality == Called => (result.st = "ok" /\ result.s # <<>>)

\* the first keyword present, in the order of the cascade
Decider(sch) ==
    IF \E i \in DOMAIN CascadeKeywords : Has(sch, CascadeKeywords[i])
    THEN CascadeKeywords[CHOOSE i \in DOMAIN CascadeKeywords :
                            /\ Has(sch, CascadeKeywords[i])
                            /\ \A j \in 1..(i - 1) : ~Has(sch, CascadeKeywords[j])]
    ELSE "none"
LowerKeywords(sch) ==
    {CascadeKeywords[j] : j \in {i \in DOMAIN CascadeKeywords :
                                    \E h \in 1..(i - 1) : CascadeKeywords[h] = Decider(sch)}}
Without(sch, f) == [g \in DOMAIN sch \ {f} |-> sch[g]]
\* the node with nothing but its deciding keyword
OnlyDecider(sch) == (Decider(sch) :> sch[Decider(sch)]) @@ JObj
OtherValues(f) ==
    IF f = "type" THEN {"string", "number", "object", "array"}
    ELSE {<<>>, <<T("boolean")>>, <<T("null"), T("string")>>}
\* the node with one lower-priority keyword set to another value, or removed
LowerChanges(sch) ==
    UNION {{(f :> v) @@ sch : v \in OtherValues(f)} \cup {Without(sch, f)} : f \in LowerKeywords(sch)}

\* C2: the output is decided by the first keyword present in the order enum,
\* oneOf, anyOf, allOf, type: it is the output of the node that carries that
\* keyword alone, and setting, changing or removing a lower-priority keyword
\* leaves it as it is.
C2_PriorityCascade ==
    (Called /\ schema.jt = "object" /\ Decider(schema) \in {"enum", "oneOf", "anyOf", "allOf"}) =>
        /\ result = translate(variant, OnlyDecider(schema))
        /\ \A m \in LowerChanges(schema) : translate(variant, m) = result

C2_Witness ==
    /\ Returned /\ result.s # <<>>
    /\ ~Has(schema, "enum") /\ Has(schema, "oneOf") /\ Has(schema, "anyOf")
    /\ Has(schema, "allOf") /\ Has(schema, "type")
    /\ schema.oneOf # schema.anyOf

\* C3: in the translation of an object node with properties, every property
\* key has a field, and the field of key k carries the optional marker "?"
\* exactly when k is not in required.
C3_RequiredOptional ==
    (Returned /\ IsObjectWithProperties(schema)) =>
        LET fields == FieldsOf(result.s)
        IN /\ \A i \in DOMAIN schema.properties :
                 \E j \in DOMAIN fields : FieldName(fields[j]) = schema.properties[i][1]
           /\ \A j \in DOMAIN fields :
                 FieldOptional(fields[j]) <=> (FieldName(fields[j]) \notin RequiredSet(schema))

C3_Witness ==
    /\ Returned /\ IsObjectWithProperties(schema) /\ Has(schema, "required")
    /\ \E j \in DOMAIN FieldsOf(result.s) : FieldOptional(FieldsOf(result.s)[j])
    /\ \E j \in DOMAIN FieldsOf(result.s) : ~FieldOptional(FieldsOf(result.s)[j])

\* C4 as claimed: the emitted fields are the properties in insertion order,
\* whatever the key strings.
C4_InsertionOrder ==
    (Returned /\ IsObjectWithProperties(schema)) =>
        FieldNames(result.s) = ObjectKeys(schema.properties)

PositionOf(keys, k) == CHOOSE i \in DOMAIN keys : keys[i] = k

\* C4, amended: exactly one field per property; the keys that are array
\* indices ("1", "2", ...) come first, in ascending numeric order, and the other
\* keys follow in insertion order. When no key is an array index the i-th field
\* is the i-th inserted key.
C4_FieldOrder ==
    (Returned /\ IsObjectWithProperties(schema)) =>
        LET names == FieldNames(result.s)
            keys == ObjectKeys(schema.properties)
        IN /\ Len(names) = Len(keys)
           /\ Range(names) = Range(keys)
           /\ \A i, j \in DOMAIN names : i < j =>
                 /\ IsArrayIndex(names[j]) => IsArrayIndex(names[i])
                 /\ (IsArrayIndex(names[i]) /\ IsArrayIndex(names[j])) =>
                        (IndexLE(names[i], names[j]) /\ names[i] # names[j])
                 /\ (~IsArrayIndex(names[i]) /\ ~IsArrayIndex(names[j])) =>
                        PositionOf(keys, names[i]) < PositionOf(keys, names[j])
           /\ (\A i \in DOMAIN keys : ~IsArrayIndex(keys[i])) => names = keys

C4_Witness ==
    /\ Returned /\ IsObjectWithProperties(schema)
    /\ ObjectKeys(schema.properties) = <<Key_x, Key_2>>
    /\ FieldNames(result.s) = <<Key_2, Key_x>>

\* a node with no enum, oneOf, anyOf, allOf, no type and no properties
IsBareNode(sch) ==
    /\ sch.jt = "object"
    /\ NoComposition(sch)
    /\ ~Has(sch, "type")
    /\ ~Has(sch, "properties")

\* C5: a bare node translates to unknown when additionalProperties
\* is absent and to Record<string, unknown> when it is true.
C5_Fallback ==
    (Called /\ IsBareNode(schema)) =>
        /\ ~Has(schema, "additionalProperties") => result = Ret(Str_unknown)
        /\ IsTrue(Get(schema, "additionalProperties")) => result = Ret(Str_RecordUnknown)

HasTopLevelOperator(text) == Len(Pieces(text, "|")) > 1 \/ Len(Pieces(text, "&")) > 1
\* text is the array type over the element type elem: elem[] when elem needs no
\* grouping, (elem)[] always
IsArrayOf(text, elem) ==
    \/ text = Str_lparen \o elem \o Str_rparenArr
    \/ text = elem \o Str_arr /\ ~HasTopLevelOperator(elem)

IsArrayNode(sch) == sch.jt = "object" /\ NoComposition(sch) /\ Has(sch, "type") /\ sch.type = "array"

\* C6: the translation of {type: "array", items: S} is the array type over the
\* translation of S, one level of nesting per array node; without items it is
\* unknown[].
C6_ArrayNesting ==
    (Returned /\ IsArrayNode(schema)) =>
        IF Has(schema, "items")
        THEN LET elem == translate(variant, schema.items)
             IN elem.st = "ok" /\ IsArrayOf(result.s, elem.s)
        ELSE result.s = Str_unknownArr

\* C7 as claimed: the fields of an object type are wrapped in braces with a
\* separator between consecutive fields and none after the last, and the
\* scenario translates to { x: string; y?: number }.
C7_ObjectShape ==
    (Returned /\ IsObjectWithProperties(schema)) =>
        /\ StartsWith(result.s, <<"{">>) /\ EndsWith(result.s, Str_braceClose)
        /\ SemicolonsOf(result.s) = Len(FieldsOf(result.s)) - 1
        /\ schema = Scenario_xy => result.s = Text_xy_morph

\* C7, amended: src/src/index.ts emits { f1; f2 } with "; " between consecutive
\* fields and none after the last, and { x: string; y?: number } for the
\* scenario; src/unnamed/part_001 emits one field per line, each field ended by
\* ";", the last one too, and {\n  x: string;\n  y?: number;\n} for the scenario.
C7_ObjectShapeByVariant ==
    (Returned /\ IsObjectWithProperties(schema)) =>
        LET n == Len(schema.properties)
        IN /\ StartsWith(result.s, <<"{">>) /\ EndsWith(result.s, Str_braceClose)
           /\ Len(FieldsOf(result.s)) = n
           /\ variant = "morph" =>
                 /\ SemicolonsOf(result.s) = n - 1
                 /\ schema = Scenario_xy => result.s = Text_xy_morph
           /\ variant = "plain" =>
                 /\ SemicolonsOf(result.s) = n
                 /\ EndsWith(result.s, <<";", "\n", "}">>)
                 /\ schema = Scenario_xy => result.s = Text_xy_plain

C7_Witness == Returned /\ schema = Scenario_xy /\ variant = "plain"

\* C8: a non-empty enum translates to the JSON text of its elements joined by
\* " | ": as many members as elements, in input order, duplicates kept; the
\* enum ["a", "b", 3] gives "a" | "b" | 3.
C8_EnumUnion ==
    (Called /\ schema.jt = "object" /\ Has(schema, "enum") /\ Len(schema.enum) > 0) =>
        LET pieces == Pieces(result.s, "|")
            members == [i \in DOMAIN pieces |-> Trim(pieces[i])]
        IN /\ result.st = "ok"
           /\ Len(members) = Len(schema.enum)
           /\ \A i \in DOMAIN members : members[i] = JSONStringify(schema.enum[i])
           /\ result.s = Join(members, Str_pipe)
           /\ schema.enum = EnumAB3 => result.s = Text_ab3

C8_Witness ==
    /\ Returned /\ Has(schema, "enum") /\ Len(schema.enum) = 2
    /\ schema.enum[1] = schema.enum[2]
    /\ Len(Pieces(result.s, "|")) = 2

(***************************************************************************)
(* Properties of the generated file, checked under Spec. The file is read  *)
(* back line by line: blank lines apart, a line is a header line, an       *)
(* exported type alias, or part of the toolNames constant.                 *)
(***************************************************************************)
Solid(text) == SelectSeq(text, LAMBDA l : l # <<>>)
IsTypeAlias(l) == StartsWith(l, Str_exportType)
AfterExportType(l) == SubSeq(l, Len(Str_exportType) + 1, Len(l))
AliasName(l) == Trim(Pieces(AfterExportType(l), "=")[1])
\* the type of an alias: the text between " = " and the closing ";"
AliasType(l) ==
    LET rest == AfterExportType(l)
        from == Len(Pieces(rest, "=")[1]) + 2
    IN Trim(SubSeq(rest, from, Len(rest) - 1))
Members(type, sep) == [i \in DOMAIN Pieces(type, sep) |-> Trim(Pieces(type, sep)[i])]
Quoted(name) == <<"\"">> \o name \o <<"\"">>
QuotedNames == [i \in DOMAIN tools |-> Quoted(tools[i].name)]

\* the text between the first "[" and the last "]" of a line
Bracketed(l) ==
    LET opens == {i \in DOMAIN l : l[i] = "["}
        closes == {i \in DOMAIN l : l[i] = "]"}
    IN SubSeq(l, NthOf(opens, 1) + 1, NthOf(closes, Cardinality(closes)) - 1)
WithoutComma(l) == IF EndsWith(l, Str_comma) THEN SubSeq(l, 1, Len(l) - 1) ELSE l

\* the entries of the toolNames constant that the lines cs spell out
ConstEntries(cs) ==
    IF Len(cs) = 1 THEN Members(Bracketed(cs[1]), ",")
    ELSE [i \in 1..(Len(cs) - 2) |-> WithoutComma(Trim(cs[i + 1]))]
IsConst(cs) ==
    /\ Len(cs) >= 1
    /\ StartsWith(cs[1], Str_exportConst)
    /\ EndsWith(cs[Len(cs)], Str_asConst \o Str_semi)
    /\ \A i \in DOMAIN cs : ~IsTypeAlias(cs[i])

Complete == pc \in {"write", "close"} \/ written.done
FileText == IF written.done THEN written.text ELSE lines

\* distinct names, one raw identifier
Collide(i, j) ==
    /\ tools[i].name # tools[j].name
    /\ toValidIdentifier(tools[i].name) = toValidIdentifier(tools[j].name)
DeclarationsOf(text, name) == SelectSeq(text, LAMBDA l : IsTypeAlias(l) /\ AliasName(l) = name)

\* C9: when two tools have distinct names with one raw identifier, the run
\* does not fail over it, and the written file holds exactly one Params
\* declaration for that identifier, built from the later tool's inputSchema.
C9_LastWriteWins ==
    \A i, j \in DOMAIN tools : (i < j /\ Collide(i, j) /\ j = Len(tools)) =>
        /\ (\A k \in DOMAIN tools : translate(variant, tools[k].inputSchema).st = "ok") =>
               error # "TypeError"
        /\ written.done =>
               LET decls == DeclarationsOf(written.text, ParamsName(tools[j]))
               IN /\ Len(decls) = 1
                  /\ AliasType(decls[1]) = translate(variant, tools[j].inputSchema).s

\* the name and type of the declarations of the first k tools
RECURSIVE Declared(_)
Declared(k) ==
    IF k = 0 THEN <<>>
    ELSE Declared(k - 1)
         \o <<<<ParamsName(tools[k]), translate(variant, tools[k].inputSchema).s>>>>
         \o (IF Has(tools[k], "outputSchema")
             THEN <<<<OutputName(tools[k]), translate(variant, tools[k].outputSchema).s>>>>
             ELSE <<>>)

\* lines from..to of text are the declarations decls, in that order
AreDeclarations(text, from, decls) ==
    \A i \in DOMAIN decls :
        /\ IsTypeAlias(text[from + i - 1])
        /\ AliasName(text[from + i - 1]) = decls[i][1]
        /\ AliasType(text[from + i - 1]) = decls[i][2]

\* C10: the generated text is the header, then for each tool in source order
\* its Params declaration and, exactly when it has an outputSchema, its Output
\* declaration; the ToolName union and then the toolNames constant come only
\* after the last tool's declarations, and each lists every tool name as a
\* quoted literal, in source order, one entry per tool.
C10_FileOrder ==
    /\ (pc = "loop" /\ idx <= Len(tools) + 1) =>
          LET solid == Solid(lines)
              decls == Declared(idx - 1)
          IN /\ Len(solid) = 2 + Len(decls)
             /\ SubSeq(solid, 1, 2) = <<Str_header1, Str_header2>>
             /\ AreDeclarations(solid, 3, decls)
    /\ Complete =>
          LET solid == Solid(FileText)
              decls == Declared(Len(tools))
              n == Len(decls)
          IN /\ Len(tools) > 0
             /\ Len(solid) >= n + 4
             /\ SubSeq(solid, 1, 2) = <<Str_header1, Str_header2>>
             /\ AreDeclarations(solid, 3, decls)
             /\ IsTypeAlias(solid[n + 3])
             /\ AliasName(solid[n + 3]) = prefix \o Str_ToolName
             /\ Members(AliasType(solid[n + 3]), "|") = QuotedNames
             /\ IsConst(SubSeq(solid, n + 4, Len(solid)))
             /\ ConstEntries(SubSeq(solid, n + 4, Len(solid))) = QuotedNames

C10_Witness ==
    /\ written.done
    /\ Len(tools) = 2
    /\ tools[1].name = tools[2].name
    /\ Has(tools[1], "outputSchema") /\ ~Has(tools[2], "outputSchema")
    /\ Len(Members(AliasType(Solid(written.text)[6]), "|")) = 2

(***************************************************************************)
(* How a run of main() ends, read from the final state.                    *)
(***************************************************************************)
Exited == pc = "exited"
MissingOptions == ~opts.command /\ opts.server = "none"
Succeeded == written.done /\ closed /\ error = "none"
NoToolsFound == connected /\ tools = <<>> /\ closed /\ ~written.done /\ error = "none"
Failed == error # "none"

\* C11 as claimed: exit code 0 goes with success or zero tools found and with
\* nothing else; missing options, a failed connection or listing and an error
\* raised during generation give exit code 1.
C11_ExitCodes ==
    Exited =>
        /\ exitCode \in {0, 1}
        /\ exitCode = 0 => (Succeeded \/ NoToolsFound)
        /\ exitCode = 1 => (MissingOptions \/ Failed)
        /\ MissingOptions => exitCode = 1
        /\ Failed => exitCode = 1

\* C11, amended: a run with --help exits 0 whatever else is supplied or
\* missing; without --help the exit code is 0 exactly on success or zero tools
\* found, and 1 exactly when the options are missing or something raised
\* (mkdirSync, new URL, connect, listTools, jsonSchemaToTS, writeFileSync,
\* close).
\* No other exit code is reachable, and none is set before the exit.
C11_ExitCodesWithHelp ==
    /\ ~Exited => exitCode = -1
    /\ Exited =>
          /\ exitCode \in {0, 1}
          /\ exitCode = 0 <=> (opts.help \/ Succeeded \/ NoToolsFound)
          /\ exitCode = 1 <=> (~opts.help /\ (MissingOptions \/ Failed))
          /\ opts.help => (~connected /\ ~written.done /\ ~Failed)
          /\ (Succeeded \/ NoToolsFound) => ~MissingOptions
          /\ (Failed /\ written.done) => error = "close"

C11_Witness ==
    /\ Exited /\ exitCode = 1 /\ error = "TypeError"
    /\ connected /\ Len(tools) = 2 /\ idx = 2

\* C16: once connect() has succeeded, close() is called before the process
\* exits, on every path.
C16_CloseBeforeExit == (Exited /\ connected) => closed

(***************************************************************************)
(* The prefix of the generated names.                                      *)
(***************************************************************************)
Unprefixed(name, base) ==
    IF EndsWith(name, base) THEN SubSeq(name, 1, Len(name) - Len(base)) ELSE <<"?">>
AliasNames(text) ==
    LET aliases == SelectSeq(text, IsTypeAlias)
    IN [i \in DOMAIN aliases |-> AliasName(aliases[i])]
\* the name of the constant a text declares
ConstName(text) ==
    LET consts == SelectSeq(text, LAMBDA l : StartsWith(l, Str_exportConst))
        rest == SubSeq(consts[1], Len(Str_exportConst) + 1, Len(consts[1]))
    IN Trim(Pieces(rest, "=")[1])
\* the base name of the k-th declared type: Params or Output of a tool, then ToolName
RECURSIVE BaseNames(_)
BaseNames(k) ==
    IF k = 0 THEN <<>>
    ELSE BaseNames(k - 1)
         \o <<toolId(tools[k]) \o Str_Params>>
         \o (IF Has(tools[k], "outputSchema") THEN <<toolId(tools[k]) \o Str_Output>> ELSE <<>>)
TypePrefixes ==
    LET names == AliasNames(FileText)
        bases == BaseNames(Len(tools)) \o <<Str_ToolName>>
    IN IF Len(names) # Len(bases) THEN {<<"?">>}
       ELSE {Unprefixed(names[i], bases[i]) : i \in DOMAIN names}
ConstPrefix == Unprefixed(ConstName(FileText), Str_toolNames)

\* C14 as claimed: one and the same prefix string stands before every Params
\* name, every Output name, the ToolName union and the toolNames constant, and
\* it is empty when no prefix is supplied.
C14_UniformPrefix ==
    Complete =>
        /\ Cardinality(TypePrefixes \cup {ConstPrefix}) = 1
        /\ opts.name = <<>> => TypePrefixes = {<<>>}

\* C14, amended: every Params name, every Output name and the ToolName union
\* carry toPascalCase(name); the toolNames constant carries toCamelCase(name),
\* the same text with its first character in lower case; with no name supplied
\* (src/unnamed/part_001 has no such option) both are empty.
C14_PrefixByKind ==
    Complete =>
        /\ TypePrefixes = {IF opts.name = <<>> THEN <<>> ELSE toPascalCase(opts.name)}
        /\ ConstPrefix = (IF opts.name = <<>> THEN <<>> ELSE toCamelCase(opts.name))
        /\ opts.name = <<>> => (TypePrefixes = {<<>>} /\ ConstPrefix = <<>>)

C14_Witness ==
    /\ written.done /\ opts.name = Name_my_api
    /\ Len(tools) = 2 /\ Has(tools[1], "outputSchema")
    /\ ConstPrefix = <<"m", "y", "A", "p", "i">>
    /\ TypePrefixes = {<<"M", "y", "A", "p", "i">>}

(***************************************************************************)
(* Object-shape translation without fields, checked under SpecTranslate.   *)
(***************************************************************************)
\* type "object", or no type and properties present; properties empty or absent
IsFieldlessObject(sch) ==
    /\ sch.jt = "object"
    /\ NoComposition(sch)
    /\ \/ Has(sch, "type") /\ sch.type = "object"
       \/ ~Has(sch, "type") /\ Has(sch, "properties")
    /\ (Has(sch, "properties") => Len(sch.properties) = 0)
\* the same node with neither type nor properties
Bare(sch) == [f \in DOMAIN sch \ {"type", "properties"} |-> sch[f]]
IsSchemaNode(v) == v.jt = "object"

\* C15: a node routed to object-shape translation with empty or absent
\* properties translates as the bare node with the same additionalProperties:
\* Record<string, unknown> when it is true, Record<string, T> when it is a
\* SchemaNode translating to T, and unknown otherwise.
C15_EmptyProperties ==
    (Called /\ IsFieldlessObject(schema)) =>
        LET ap == Get(schema, "additionalProperties")
        IN /\ result = translate(variant, Bare(schema))
           /\ IsTrue(ap) => result = Ret(Str_RecordUnknown)
           /\ IsSchemaNode(ap) =>
                 result = Ret(Str_RecordOpen \o translate(variant, ap).s \o Str_gt)
           /\ (~IsTrue(ap) /\ ~IsSchemaNode(ap)) => result = Ret(Str_unknown)

(***************************************************************************)
(* Properties of fixZodSchema, checked under SpecFix. A generated          *)
(* expression is read as a chain of calls .name(arguments), the arguments  *)
(* ending at the parenthesis that closes the call, string literals and     *)
(* nested parentheses skipped.                                             *)
(***************************************************************************)
Letters == Range(Lower) \cup Range(Upper)
\* the parenthesis at position c closes the one at position open
ClosesCall(s, open, c) ==
    /\ s[c] = ")" /\ ~InLiteral(s, c)
    /\ Cardinality({j \in (open + 1)..(c - 1) : s[j] = "(" /\ ~InLiteral(s, j)})
         = Cardinality({j \in (open + 1)..(c - 1) : s[j] = ")" /\ ~InLiteral(s, j)})
\* a call .name(arguments) at position i: the index of its closing parenthesis, or 0
CallEnd(s, i) ==
    IF i > Len(s) \/ s[i] # "." THEN 0
    ELSE LET stops == {j \in (i + 1)..Len(s) : s[j] \notin Letters}
         IN IF stops = {} THEN 0
            ELSE LET open == NthOf(stops, 1)
                     closes == {c \in (open + 1)..Len(s) : ClosesCall(s, open, c)}
                 IN IF open = i + 1 \/ s[open] # "(" \/ closes = {} THEN 0
                    ELSE NthOf(closes, 1)

\* from position p, zero or more calls and then .default(null)
RECURSIVE LeadsToDefaultNull(_, _)
LeadsToDefaultNull(s, p) ==
    \/ MatchesAt(s, p, Str_defaultNull)
    \/ CallEnd(s, p) # 0 /\ LeadsToDefaultNull(s, CallEnd(s, p) + 1)

IsPrimitiveCall(s, i) ==
    \E p \in PrimitiveNames : MatchesAt(s, i, <<".">> \o p \o Str_call) /\ ~InLiteral(s, i)
AfterPrimitive(s, i) ==
    i + Len(CHOOSE p \in PrimitiveNames : MatchesAt(s, i, <<".">> \o p \o Str_call)) + 3
\* the positions right after the primitive calls that lead to .default(null)
NullablePoints(s) ==
    {AfterPrimitive(s, i) : i \in {j \in DOMAIN s : IsPrimitiveCall(s, j)
                                                    /\ LeadsToDefaultNull(s, AfterPrimitive(s, j))}}
\* s with .nullable() put in at each of the positions of points
RECURSIVE InsertNullable(_, _, _)
InsertNullable(s, from, points) ==
    IF points = {} THEN SubSeq(s, from, Len(s))
    ELSE LET p == NthOf(points, 1)
         IN SubSeq(s, from, p - 1) \o Str_nullable \o InsertNullable(s, p, points \ {p})

\* C13: in the result of fixZodSchema every primitive call that is followed,
\* after zero or more modifier calls with any argument text, by .default(null)
\* has .nullable() right after it, before the modifiers, and the rest of the
\* expression is unchanged.
C13_NullableInserted ==
    (variant = "zod" /\ pc = "idle" /\ Called) =>
        result = Ret(InsertNullable(zodString, 1, NullablePoints(zodString)))

\* the exported constants of a text, the mcpTools object aside, as name and initializer
DeclaredSchemas(text) ==
    LET consts == SelectSeq(text, LAMBDA l : StartsWith(l, Str_exportConst)
                                             /\ ~StartsWith(l, Str_exportConst \o Str_mcpTools \o Str_eq))
        Rest(l) == SubSeq(l, Len(Str_exportConst) + 1, Len(l))
        NameOf(l) == Trim(Pieces(Rest(l), "=")[1])
    IN [i \in DOMAIN consts |->
          [name |-> NameOf(consts[i]),
           initializer |-> SubSeq(Rest(consts[i]),
                                  Len(Pieces(Rest(consts[i]), "=")[1]) + 3,
                                  Len(Rest(consts[i])) - 1)]]
\* the schema expression the claim gives a schema: the permissive type when its conversion
\* failed, its own converted text otherwise
OwnExpression(sch) ==
    IF sch.converts = Raised THEN Str_zAny
    ELSE IF variant = "zod" THEN fixZodSchema(sch.converts.s)
    ELSE sch.converts.s
\* the schema constants of the first k tools, in order
RECURSIVE OwnSchemas(_)
OwnSchemas(k) ==
    IF k = 0 THEN <<>>
    ELSE LET tool == tools[k]
             base == toPascalCase(toValidIdentifier(tool.name))
         IN OwnSchemas(k - 1)
            \o <<[name |-> base \o Str_Schema, initializer |-> OwnExpression(tool.inputSchema)]>>
            \o (IF variant = "zod" /\ Has(tool, "outputSchema")
                THEN <<[name |-> base \o Str_OutputSchema,
                        initializer |-> OwnExpression(tool.outputSchema)]>>
                ELSE <<>>)
\* the warnings owed to the first k tools: one naming the tool, and the fallback notice
RECURSIVE OwnWarnings(_)
OwnWarnings(k) ==
    IF k = 0 THEN <<>>
    ELSE LET tool == tools[k]
         IN OwnWarnings(k - 1)
            \o (IF tool.inputSchema.converts = Raised
                THEN <<Str_failedInput \o tool.name, Str_usingAny>> ELSE <<>>)
            \o (IF variant = "zod" /\ Has(tool, "outputSchema") /\ tool.outputSchema.converts = Raised
                THEN <<Str_failedOutput \o tool.name, Str_usingAny>> ELSE <<>>)
\* some conversion among the tools from position a to position b failed
FailsWithin(a, b) == \E i \in a..b : i \in DOMAIN tools /\ tools[i].inputSchema.converts = Raised
ConvertsAt(i) == i \in DOMAIN tools /\ tools[i].inputSchema.converts # Raised

(* C12: in the scripts that emit zod schemas a failing schema conversion    *)
(* stays with its tool: after any number of rounds of the loop the text     *)
(* holds one schema constant per converted schema of the tools gone         *)
(* through, in order, whose expression is z.any() exactly where the         *)
(* conversion failed and the schema's own converted text everywhere else,   *)
(* before and after a failing one; each failure is logged as a warning      *)
(* naming its tool; the loop always runs to its end, so a run that listed   *)
(* tools never exits from inside it nor with an error of a conversion; and  *)
(* the file written holds the constants of all the tools.                   *)
C12_FailureIsolation ==
    /\ pc \in {"loop", "object", "write", "close"}
         => /\ DeclaredSchemas(lines) = OwnSchemas(idx - 1)
            /\ warnings = OwnWarnings(idx - 1)
    /\ pc \in {"object", "write", "close"} => idx = Len(tools) + 1
    /\ (Exited /\ tools # <<>>)
         => /\ idx = Len(tools) + 1
            /\ DeclaredSchemas(lines) = OwnSchemas(Len(tools))
            /\ warnings = OwnWarnings(Len(tools))
            /\ error \in {"none", "save", "close"}
    /\ written.done => DeclaredSchemas(written.text) = OwnSchemas(Len(tools))
\* a file written from two tools of which one failed to convert and the other converted,
\* the failing one first in some runs and last in others
C12_Witness ==
    /\ written.done
    /\ exitCode = 0
    /\ Len(tools) = 2
    /\ FailsWithin(1, 2)
    /\ \E i \in 1..2 : ConvertsAt(i) /\ DeclaredSchemas(written.text)[i].initializer # Str_zAny
    /\ warnings # <<>>
====
